---- MODULE Spec2Model ----
(***************************************************************************)
(* The emergency-commit bridge: one daemon (src/daemon/src/main.rs), the   *)
(* client library calls pair / commit (src/mobile-core/src/lib.rs), the    *)
(* commit executor (src/git-actor/src/lib.rs) and the shared gossipsub     *)
(* topic "emergency-git-commits" that connects them.                       *)
(*                                                                         *)
(* An envelope on the topic is [source, data, ref]: source and data are    *)
(* gossipsub::Message.source and .data; ref is a history field naming the  *)
(* client call a message belongs to, read by the properties only, never by *)
(* the modelled code.                                                      *)
(***************************************************************************)
EXTENDS Naturals, Sequences, FiniteSets, TLC

\* ------------------------------------------------------------- bounds
MaxStimuli == 2      \* client calls and publishes of other subscribers
TickSecs == 10       \* seconds of one step of the clock
MaxElapsed == 40     \* the clock of a call stops counting here

\* ------------------------------------------------- program constants
TimeoutSecs == 20    \* tokio::time::sleep(Duration::from_secs(20))
max_retries == 5     \* let max_retries = 5

\* --------------------------------------------------------- the peers
Clients == {"c1", "c2"}          \* peer ids of the client identities
Foreign == "x"                   \* another subscriber of the topic
NoSource == "none"               \* gossipsub::Message.source = None
RepoPaths == {"/tmp/test-repo", "/tmp/not-a-repo"}
IsRepository(path) == path = "/tmp/test-repo"
StdinLines == {"y", " Y\n", "n", "yes", "\n"}

DialStrings == {"/ip4/172.20.128.55/tcp/35809/p2p/12D3KooW", "not a multiaddr"}
\* daemon_full_addr.parse::<Multiaddr>() is Ok
ParsesAsMultiaddr(addr) == addr = "/ip4/172.20.128.55/tcp/35809/p2p/12D3KooW"
DaemonPeer == "daemon"
Peers == Clients \cup {Foreign}

\* ------------------------------------------------------ Option<T>
None == <<>>
Some(v) == <<v>>
unwrap_or_default(o) == IF o = None THEN "" ELSE o[1]

\* ---------------------------------------------- protocol.rs, serde
PairRequest == [tag |-> "PairRequest"]
PairSuccess == [tag |-> "PairSuccess"]
Request(req) == [tag |-> "Request", body |-> req]
Response(resp) == [tag |-> "Response", body |-> resp]
CommitRequest(rp) == [repo_path |-> rp]
CommitResponse(s, h, e) == [success |-> s, commit_hash |-> h, error_message |-> e]

UnitVariants == {"PairRequest", "PairSuccess"}
StructVariants == {"Request", "Response"}

\* serde_json::to_string of the externally tagged enum: a unit variant is the
\* JSON string of its name, a newtype variant the object {"Name": body}.
to_string(m) ==
    IF m.tag \in UnitVariants
    THEN [json |-> "string", text |-> m.tag]
    ELSE [json |-> "object", key |-> m.tag, value |-> m.body]

\* serde_json::from_slice::<NetworkMessage>: Err for bytes that are no JSON,
\* for an unknown variant name, and for a variant given in the other shape.
from_slice(data) ==
    IF data.json = "string" /\ data.text \in UnitVariants
    THEN [ok |-> TRUE, msg |-> [tag |-> data.text]]
    ELSE IF data.json = "object" /\ data.key \in StructVariants
    THEN [ok |-> TRUE, msg |-> [tag |-> data.key, body |-> data.value]]
    ELSE [ok |-> FALSE]

Garbage == [json |-> "invalid"]

\* What another subscriber of the topic publishes: anonymously, any of the
\* four variants; under its own peer id, the replies (another daemon on the
\* topic) and bytes that are no NetworkMessage.
AnonymousPayloads ==
    << to_string(PairRequest),
       to_string(PairSuccess),
       to_string(Request(CommitRequest("/tmp/test-repo"))),
       to_string(Response(CommitResponse(TRUE, Some("ff"), None))) >>
SignedPayloads ==
    << to_string(PairSuccess),
       to_string(Response(CommitResponse(TRUE, Some("ff"), None))),
       Garbage >>
ForeignPayloads(src) == IF src = NoSource THEN AnonymousPayloads ELSE SignedPayloads

\* Oid::to_string: the hexadecimal text of the object id
HexText == <<"0a", "1b", "2c", "3d", "4e", "5f", "6a", "7b", "8c", "9d">>
oid_to_string(oid) == HexText[oid]

Envelope(src, bytes, r) == [source |-> src, data |-> bytes, ref |-> r]
NoRef == <<"none", 0>>

\* ----------------------------------------------- trusted_peers.json
AbsentFile == [state |-> "absent", peers |-> {}]
TruncatedFile == [state |-> "corrupt", peers |-> {}]
\* serde_json::to_string_pretty(&HashSet<PeerId>): the document of the set
to_string_pretty(set) == [state |-> "valid", peers |-> set]
\* serde_json::from_str::<HashSet<PeerId>>
from_str(doc) ==
    IF doc.state = "valid" THEN [ok |-> TRUE, peers |-> doc.peers] ELSE [ok |-> FALSE]

VARIABLES
    \* daemon process
    dpc,                 \* "loop" | "prompt" | "publish" | "stopped"
    is_pairing_mode,     \* args.contains("--pair")
    trusted_peers,       \* PeerManager.trusted_peers
    trusted_peers_file,  \* the document at trusted_peers.json
    pairing,             \* handle_pair_request's peer_id (with its ref)
    attempt,             \* handle_pair_request's retry index i
    dinbox,              \* gossipsub messages the swarm holds for the loop
    head,                \* the repository's HEAD: number of commits made
    \* client calls
    cpc,                 \* "idle" | "loop" | "done"
    op,                  \* "pair" | "commit"
    calls,               \* calls started so far
    commit_request,      \* the CommitRequest of the call
    published_request,   \* the one-shot flag of the event loop
    cinbox,              \* gossipsub messages the call's swarm holds
    result,              \* what the call returned
    identity_file,       \* the document at client_identity.key
    sleep_timer,         \* seconds the select!'s current sleep has run
    elapsed,             \* seconds since the call entered its event loop
    \* the other subscribers
    foreign,             \* messages they have published
    \* history, read by the properties only
    last_dispatch,       \* the arm the daemon's last message took
    commit_log,          \* one record per handle_commit_request
    add_failed,          \* peers whose add_trusted_peer returned Err
    paired_log,          \* peers a PairSuccess was published for
    denied_log,          \* refs of the calls in progress whose PairRequest the operator did not approve
    pub_count,           \* successful publishes of the call's envelope
    published_on,        \* the event the call was handling when it published
    publishes,           \* outcomes of the PairSuccess publish attempts of
                         \* the last handle_pair_request, in order
    resolved_by          \* the envelope the call resolved on

dvars == <<dpc, is_pairing_mode, trusted_peers, trusted_peers_file, pairing,
           attempt, dinbox, head>>
cvars == <<cpc, op, calls, commit_request, published_request, cinbox, result,
           identity_file>>
tvars == <<sleep_timer, elapsed>>
hvars == <<last_dispatch, commit_log, add_failed, paired_log, denied_log, pub_count,
           published_on, publishes,
           resolved_by>>
vars == <<dvars, cvars, tvars, foreign, hvars>>

NoDispatch == "none"
NoEnvelope == Envelope(NoSource, Garbage, NoRef)
NoResult == [kind |-> "pending"]
\* the locals of a call that has returned
NoRequest == CommitRequest("/tmp/test-repo")

\* ---------------------------------------------------------------- Init
\* The daemon has started (PeerManager::new has loaded the trust file of its
\* working directory) and no client call has been made.
InitialFiles == {AbsentFile, to_string_pretty(Clients)}

InitRest ==
    /\ pairing = [peer_id |-> NoSource, ref |-> NoRef]
    /\ attempt = 0
    /\ dinbox = <<>>
    /\ head = 0
    /\ cpc = [c \in Clients |-> "idle"]
    /\ op = [c \in Clients |-> "pair"]
    /\ calls = [c \in Clients |-> 0]
    /\ commit_request = [c \in Clients |-> NoRequest]
    /\ published_request = [c \in Clients |-> FALSE]
    /\ cinbox = [c \in Clients |-> <<>>]
    /\ result = [c \in Clients |-> NoResult]
    /\ identity_file = [c \in Clients |-> "absent"]
    /\ sleep_timer = [c \in Clients |-> 0]
    /\ elapsed = [c \in Clients |-> 0]
    /\ foreign = 0
    /\ last_dispatch = NoDispatch
    /\ commit_log = <<>>
    /\ add_failed = {}
    /\ paired_log = {}
    /\ denied_log = {}
    /\ pub_count = [c \in Clients |-> 0]
    /\ published_on = [c \in Clients |-> "none"]
    /\ publishes = <<>>
    /\ resolved_by = [c \in Clients |-> NoEnvelope]

Init ==
    /\ dpc = "loop"
    /\ is_pairing_mode \in BOOLEAN
    /\ trusted_peers_file \in InitialFiles
    /\ trusted_peers = trusted_peers_file.peers
    /\ InitRest

\* The inputs from outside so far: calls started and messages of other
\* subscribers.
Stimuli == foreign + calls["c1"] + calls["c2"]

\* ------------------------------------------------------ the topic
\* A successful gossipsub publish reaches every other endpoint that has a
\* running swarm subscribed to the topic. Both client loops let every message
\* that decodes to neither PairSuccess nor Response fall through without
\* touching their state: such a message is one more ignored event of the
\* swarm (ClientOtherEvent), and only the replies are queued.
IsReply(env) ==
    LET decoded == from_slice(env.data) IN
    decoded.ok /\ decoded.msg.tag \in {"PairSuccess", "Response"}
ToClients(env) ==
    [c \in Clients |->
        IF cpc[c] = "loop" /\ c # env.source /\ IsReply(env)
        THEN Append(cinbox[c], env)
        ELSE cinbox[c]]
ToDaemon(env) == IF dpc = "stopped" THEN dinbox ELSE Append(dinbox, env)

\* ------------------------------------------------------ PeerManager
\* PeerManager::new: the set read from the file, empty when there is none;
\* Err when the file does not parse.
PeerManager_new(doc) ==
    IF doc.state = "absent" THEN [ok |-> TRUE, peers |-> {}] ELSE from_str(doc)

\* A trust check that lets every peer through (what C1 must tell apart).
is_trusted_anyone(peer_id) == TRUE
\* is_trusted: self.trusted_peers.contains(peer_id)
is_trusted(peer_id) == peer_id \in trusted_peers

\* A set that holds the added peer alone (what C11 must tell apart).
add_replaced(peer_id) == {peer_id}
\* add_trusted_peer, line 58: self.trusted_peers.insert(peer_id)
add_inserted(peer_id) == trusted_peers \cup {peer_id}
\* A document built from the file on disk rather than from the in-memory set
\* (what C10 must tell apart).
add_document_appended(peer_id) == to_string_pretty(trusted_peers_file.peers \cup {peer_id})
\* add_trusted_peer, line 59: the document of the whole in-memory set
add_document(peer_id) == to_string_pretty(add_inserted(peer_id))
\* fs::write creates or truncates the file, then writes: a failure leaves the
\* old document (the open failed) or a truncated one (the write failed).
WriteOutcomes == {"written", "open_failed", "write_failed"}
fs_write(old, contents, outcome) ==
    IF outcome = "written" THEN contents
    ELSE IF outcome = "open_failed" THEN old
    ELSE TruncatedFile

\* ------------------------------------------------- git_actor
\* perform_commit: Err when repo_path is no repository, else the Oid of the
\* new commit, which becomes HEAD.
perform_commit(request) ==
    IF IsRepository(request.repo_path)
    THEN [ok |-> TRUE, oid |-> head + 1]
    ELSE [ok |-> FALSE, error |-> "Failed to open repository"]

\* A CommitResponse that fills error_message on success too (what C12 must
\* tell apart).
commit_response_both(outcome) ==
    IF outcome.ok
    THEN CommitResponse(TRUE, Some(oid_to_string(outcome.oid)), Some(""))
    ELSE CommitResponse(FALSE, None, Some(outcome.error))
\* handle_commit_request, lines 277-299: the CommitResponse of an outcome
commit_response(outcome) ==
    IF outcome.ok
    THEN CommitResponse(TRUE, Some(oid_to_string(outcome.oid)), None)
    ELSE CommitResponse(FALSE, None, Some(outcome.error))

\* A Response that goes out in the end whatever the first publish returned
\* (what C22 must tell apart).
response_published_retried(sent) == TRUE
\* handle_commit_request, lines 300-307: the Response is on the topic when
\* the one gossipsub.publish returned Ok; an Err is logged.
response_published(sent) == sent

\* --------------------------------------------- daemon: the event loop
\* A PairRequest arm without the mode test (what C2 must tell apart).
pairing_enabled_always == TRUE
\* if is_pairing_mode
pairing_enabled == is_pairing_mode

\* A match that takes a PairSuccess for a PairRequest and so answers the
\* echo of a reply (what C23 must tell apart).
dispatch_arm_echoing(message) ==
    IF message.source = NoSource THEN "anonymous"
    ELSE LET decoded == from_slice(message.data) IN
         IF ~decoded.ok THEN "undecodable"
         ELSE IF decoded.msg.tag \in {"PairRequest", "PairSuccess"}
              THEN (IF pairing_enabled THEN "prompt" ELSE "pair_ignored")
         ELSE IF decoded.msg.tag = "Request"
              THEN (IF is_trusted(message.source) THEN "commit" ELSE "untrusted")
         ELSE "dropped"
\* The arm of the gossipsub::Event::Message match a message takes.
dispatch_arm(message) ==
    IF message.source = NoSource THEN "anonymous"
    ELSE LET decoded == from_slice(message.data) IN
         IF ~decoded.ok THEN "undecodable"
         ELSE IF decoded.msg.tag = "PairRequest"
              THEN (IF pairing_enabled THEN "prompt" ELSE "pair_ignored")
         ELSE IF decoded.msg.tag = "Request"
              THEN (IF is_trusted(message.source) THEN "commit" ELSE "untrusted")
         ELSE "dropped"

\* An event loop that goes on polling the swarm while a handler is awaited
\* (what C25 must tell apart).
loop_polls_during_dialog == dpc \in {"loop", "prompt", "publish"}
\* main, lines 155-157 and 181: swarm.select_next_some() is polled only by the
\* loop itself, and the loop awaits each handler inline, so the next event is
\* taken only when no handler is in progress.
loop_polls == dpc = "loop"

\* One iteration of the loop on a gossipsub message. A Request of a trusted
\* peer runs handle_commit_request to its end: the commit, then one publish
\* of the Response. A PairRequest in pairing mode enters handle_pair_request,
\* which the loop awaits.
DaemonDispatch ==
    /\ loop_polls
    /\ dinbox # <<>>
    /\ LET message == Head(dinbox)
           arm == dispatch_arm(message)
       IN
       /\ dinbox' = Tail(dinbox)
       /\ last_dispatch' = arm
       /\ dpc' = IF arm = "prompt" THEN "prompt" ELSE "loop"
       /\ pairing' = IF arm = "prompt"
                     THEN [peer_id |-> message.source, ref |-> message.ref]
                     ELSE pairing
       /\ publishes' = IF arm = "prompt" THEN <<>> ELSE publishes
       /\ IF arm = "commit"
          THEN LET outcome == perform_commit(from_slice(message.data).msg.body)
                   response == commit_response(outcome)
                   reply == Envelope(DaemonPeer, to_string(Response(response)), message.ref)
               IN \E sent \in BOOLEAN :
                    /\ head' = IF outcome.ok THEN outcome.oid ELSE head
                    /\ cinbox' = IF response_published(sent) THEN ToClients(reply)
                                  ELSE cinbox
                    /\ commit_log' = Append(commit_log,
                          [source |-> message.source, ref |-> message.ref,
                           trusted |-> message.source \in trusted_peers,
                           outcome |-> outcome, response |-> response,
                           sent |-> sent])
          ELSE UNCHANGED <<head, cinbox, commit_log>>
    /\ UNCHANGED <<is_pairing_mode, trusted_peers, trusted_peers_file, attempt>>
    /\ UNCHANGED <<cpc, op, calls, commit_request, published_request, result, identity_file>>
    /\ UNCHANGED <<tvars, foreign, add_failed, paired_log, denied_log, pub_count,
                   published_on, resolved_by>>

\* read_line(..).is_ok() && line.trim().eq_ignore_ascii_case("y")
trim(line) == IF line = " Y\n" THEN "Y" ELSE IF line = "\n" THEN "" ELSE line
eq_ignore_ascii_case_y(text) == text \in {"y", "Y"}
approves(read_ok, line) == read_ok /\ eq_ignore_ascii_case_y(trim(line))

\* handle_pair_request, lines 244-248: where the handler goes when
\* add_trusted_peer has returned: on to the publish of PairSuccess after Ok,
\* back to the loop (`return`) after Err.
after_add_publishing(w) == "publish"
after_add_exiting(w) == IF w = "written" THEN "publish" ELSE "stopped"
after_add(w) == IF w = "written" THEN "publish" ELSE "loop"

\* handle_pair_request, lines 239-249 and 270-272: the operator's answer
\* arrives; when it approves, add_trusted_peer runs, and only its Ok leads to
\* the publish of PairSuccess.
OperatorAnswers ==
    /\ dpc = "prompt"
    /\ \E read_ok \in BOOLEAN, line \in StdinLines :
         IF approves(read_ok, line)
         THEN \E w \in WriteOutcomes :
              /\ trusted_peers' = add_inserted(pairing.peer_id)
              /\ trusted_peers_file' =
                     fs_write(trusted_peers_file, add_document(pairing.peer_id), w)
              /\ add_failed' = IF w = "written" THEN add_failed
                                ELSE add_failed \cup {pairing.peer_id}
              /\ dpc' = after_add(w)
              /\ UNCHANGED denied_log
         ELSE /\ dpc' = "loop"
              /\ denied_log' = denied_log \cup
                     {r \in {pairing.ref} : \E c \in Clients : r = <<c, calls[c]>>}
              /\ UNCHANGED <<trusted_peers, trusted_peers_file, add_failed>>
    /\ attempt' = 0
    /\ UNCHANGED <<is_pairing_mode, pairing, dinbox, head>>
    /\ UNCHANGED <<cvars, tvars, foreign>>
    /\ UNCHANGED <<last_dispatch, commit_log, paired_log, pub_count, published_on,
                   publishes, resolved_by>>

\* Err(e) if i < max_retries - 1: the failed attempt is followed by a sleep of
\* 500 ms and the next attempt.
retry_again_always(i) == TRUE
retry_again(i) == i < max_retries - 1

\* handle_pair_request, lines 250-268: one publish attempt of PairSuccess; a
\* failed attempt before the last sleeps 500 ms and goes on to the next.
PairSuccessAttempt ==
    /\ dpc = "publish"
    /\ \E sent \in BOOLEAN :
         /\ publishes' = Append(publishes, sent)
         /\ IF sent
            THEN /\ cinbox' = ToClients(Envelope(DaemonPeer, to_string(PairSuccess), pairing.ref))
                 /\ paired_log' = paired_log \cup {pairing.peer_id}
                 /\ dpc' = "loop"
                 /\ attempt' = attempt
            ELSE /\ dpc' = IF retry_again(attempt) THEN "publish" ELSE "loop"
                 /\ attempt' = IF retry_again(attempt) THEN attempt + 1 ELSE attempt
                 /\ UNCHANGED <<cinbox, paired_log>>
    /\ UNCHANGED <<is_pairing_mode, trusted_peers, trusted_peers_file, pairing,
                   dinbox, head>>
    /\ UNCHANGED <<cpc, op, calls, commit_request, published_request, result, identity_file>>
    /\ UNCHANGED <<tvars, foreign, last_dispatch, commit_log, add_failed, denied_log,
                   pub_count, published_on, resolved_by>>

\* The daemon process ends and a new one is started in the same working
\* directory: main, lines 80-83. A trust file that does not parse is a startup
\* error and leaves no daemon running.
DaemonRestart ==
    /\ LET loaded == PeerManager_new(trusted_peers_file) IN
         /\ dpc' = IF loaded.ok THEN "loop" ELSE "stopped"
         /\ trusted_peers' = IF loaded.ok THEN loaded.peers ELSE {}
    /\ is_pairing_mode' \in BOOLEAN
    /\ dinbox' = <<>>
    /\ attempt' = 0
    /\ pairing' = [peer_id |-> NoSource, ref |-> NoRef]
    /\ last_dispatch' = NoDispatch
    /\ publishes' = <<>>
    /\ UNCHANGED <<trusted_peers_file, head>>
    /\ UNCHANGED <<cvars, tvars, foreign, commit_log, add_failed, paired_log, denied_log,
                   pub_count, published_on, resolved_by>>

\* ------------------------------------------------------- client calls
\* A key store that generates a new identity when the file does not decode
\* (what C16 must tell apart).
get_or_create_identity_regenerating(doc, w) ==
    IF doc = "valid" THEN [ok |-> TRUE, file |-> doc]
    ELSE IF w = "written" THEN [ok |-> TRUE, file |-> "valid"]
    ELSE [ok |-> FALSE,
          file |-> IF w = "open_failed" THEN doc ELSE "corrupt",
          message |-> "Failed to write key file"]
\* get_or_create_identity: the key file after the call, and whether it is Ok.
get_or_create_identity(doc, w) ==
    IF doc = "valid" THEN [ok |-> TRUE, file |-> doc]
    ELSE IF doc = "corrupt"
    THEN [ok |-> FALSE, file |-> doc, message |-> "Failed to decode key file"]
    ELSE IF w = "written" THEN [ok |-> TRUE, file |-> "valid"]
    ELSE [ok |-> FALSE,
          file |-> IF w = "open_failed" THEN "absent" ELSE "corrupt",
          message |-> "Failed to write key file"]

Ok(v) == [kind |-> "Ok", value |-> v]
NetworkError(text) == [kind |-> "NetworkError", message |-> text]
Timeout == [kind |-> "Timeout"]

\* pair_async / emergency_commit_async up to the event loop: the identity,
\* the swarm and its subscription, the parse of the dial string, the dial.
start_result(identity, addr, dial_ok) ==
    IF ~identity.ok THEN NetworkError(identity.message)
    ELSE IF ~ParsesAsMultiaddr(addr) THEN NetworkError("Invalid daemon address")
    ELSE IF ~dial_ok THEN NetworkError("Failed to dial daemon")
    ELSE NoResult

ClientStart(c) ==
    /\ cpc[c] \in {"idle", "done"}
    /\ Stimuli < MaxStimuli
    /\ \E o \in {"pair", "commit"}, rp \in RepoPaths, addr \in DialStrings,
          dial_ok \in BOOLEAN, w \in WriteOutcomes :
         LET identity == get_or_create_identity(identity_file[c], w)
             r == start_result(identity, addr, dial_ok)
         IN
         /\ o = "pair" => rp = "/tmp/test-repo"
         /\ op' = [op EXCEPT ![c] = o]
         /\ commit_request' = [commit_request EXCEPT ![c] =
                IF r = NoResult THEN CommitRequest(rp) ELSE NoRequest]
         /\ identity_file' = [identity_file EXCEPT ![c] = identity.file]
         /\ result' = [result EXCEPT ![c] = r]
         /\ cpc' = [cpc EXCEPT ![c] = IF r = NoResult THEN "loop" ELSE "done"]
    /\ calls' = [calls EXCEPT ![c] = @ + 1]
    /\ published_request' = [published_request EXCEPT ![c] = FALSE]
    /\ cinbox' = [cinbox EXCEPT ![c] = <<>>]
    /\ sleep_timer' = [sleep_timer EXCEPT ![c] = 0]
    /\ elapsed' = [elapsed EXCEPT ![c] = 0]
    /\ pub_count' = [pub_count EXCEPT ![c] = 0]
    /\ published_on' = [published_on EXCEPT ![c] = "none"]
    /\ resolved_by' = [resolved_by EXCEPT ![c] = NoEnvelope]
    /\ denied_log' = {r \in denied_log : r[1] # c}
    /\ UNCHANGED <<dvars, foreign, last_dispatch, commit_log, add_failed, paired_log,
                   publishes>>

\* The outbound envelope of the call: PairRequest, or Request{..}.
outbound(c) ==
    IF op[c] = "pair" THEN PairRequest ELSE Request(commit_request[c])

\* A Subscribed arm without the flag test (what C4 must tell apart).
should_publish_again(c) == TRUE
\* if !published_request
should_publish(c) == ~published_request[c]

\* A Subscribed arm that never sets the flag (what C26 must tell apart).
flag_after_publish_unset(is_ok) == FALSE
\* if publish(..).is_ok() { published_request = true; }
flag_after_publish(is_ok) == is_ok

\* Every iteration of the loop builds its select! anew, and with it the
\* 20-second sleep: handling an event starts the sleep again.
sleep_after_event(c) == [sleep_timer EXCEPT ![c] = 0]

\* The Subscribed arm: publish the envelope unless it has been published; the
\* flag is set when publish returns Ok.
ClientSubscribed(c) ==
    /\ cpc[c] = "loop"
    /\ \E sent \in BOOLEAN :
         IF should_publish(c) /\ sent
         THEN LET env == Envelope(c, to_string(outbound(c)), <<c, calls[c]>>) IN
              /\ published_request' =
                     [published_request EXCEPT ![c] = flag_after_publish(sent)]
              /\ pub_count' = [pub_count EXCEPT ![c] = @ + 1]
              /\ published_on' = [published_on EXCEPT ![c] = "Subscribed"]
              /\ dinbox' = ToDaemon(env)
              /\ cinbox' = ToClients(env)
         ELSE UNCHANGED <<published_request, pub_count, published_on, dinbox, cinbox>>
    /\ sleep_timer' = sleep_after_event(c)
    /\ UNCHANGED <<dpc, is_pairing_mode, trusted_peers, trusted_peers_file, pairing,
                   attempt, head>>
    /\ UNCHANGED <<cpc, op, calls, commit_request, result, identity_file>>
    /\ UNCHANGED <<elapsed, foreign, last_dispatch, commit_log, add_failed, paired_log,
                   denied_log, publishes, resolved_by>>

\* A ConnectionEstablished arm that publishes the envelope (what C24 must
\* tell apart).
other_event_outbound_request(c) ==
    <<Envelope(c, to_string(outbound(c)), <<c, calls[c]>>)>>
\* What the ConnectionEstablished arm and the `_ => {}` arm publish: nothing.
other_event_outbound(c) == <<>>

\* The ConnectionEstablished arm, and the `_ => {}` arm: a log line at most.
ClientOtherEvent(c) ==
    /\ cpc[c] = "loop"
    /\ LET out == other_event_outbound(c) IN
         /\ dinbox' = IF out = <<>> THEN dinbox ELSE ToDaemon(out[1])
         /\ cinbox' = IF out = <<>> THEN cinbox ELSE ToClients(out[1])
         /\ pub_count' = [pub_count EXCEPT ![c] = @ + Len(out)]
         /\ published_on' = IF out = <<>> THEN published_on
                            ELSE [published_on EXCEPT ![c] = "ConnectionEstablished"]
    /\ sleep_timer' = sleep_after_event(c)
    /\ UNCHANGED <<dpc, is_pairing_mode, trusted_peers, trusted_peers_file, pairing,
                   attempt, head>>
    /\ UNCHANGED <<cpc, op, calls, commit_request, published_request, result,
                   identity_file>>
    /\ UNCHANGED <<elapsed, foreign, last_dispatch, commit_log, add_failed, paired_log,
                   denied_log, publishes, resolved_by>>

\* Whether the call resolves on the message: the Message arm's `if let`.
resolves(c, message) ==
    LET decoded == from_slice(message.data) IN
    /\ decoded.ok
    /\ decoded.msg.tag = (IF op[c] = "pair" THEN "PairSuccess" ELSE "Response")

\* A return that does not look at response.success (what C13 must tell
\* apart).
resolution_hash_only(c, message) ==
    IF op[c] = "pair" THEN Ok("()")
    ELSE Ok(unwrap_or_default(from_slice(message.data).msg.body.commit_hash))
\* What the call returns on the message it resolves on.
resolution(c, message) ==
    IF op[c] = "pair" THEN Ok("()")
    ELSE LET response == from_slice(message.data).msg.body IN
         IF response.success
         THEN Ok(unwrap_or_default(response.commit_hash))
         ELSE NetworkError(unwrap_or_default(response.error_message))

\* The Message arm.
ClientMessage(c) ==
    /\ cpc[c] = "loop"
    /\ cinbox[c] # <<>>
    /\ LET message == Head(cinbox[c]) IN
         IF resolves(c, message)
         THEN /\ result' = [result EXCEPT ![c] = resolution(c, message)]
              /\ cpc' = [cpc EXCEPT ![c] = "done"]
              /\ cinbox' = [cinbox EXCEPT ![c] = <<>>]
              /\ commit_request' = [commit_request EXCEPT ![c] = NoRequest]
              /\ published_request' = [published_request EXCEPT ![c] = FALSE]
              /\ resolved_by' = [resolved_by EXCEPT ![c] = message]
         ELSE /\ cinbox' = [cinbox EXCEPT ![c] = Tail(@)]
              /\ UNCHANGED <<result, cpc, resolved_by, commit_request, published_request>>
    /\ sleep_timer' = sleep_after_event(c)
    /\ UNCHANGED <<dvars, op, calls, identity_file>>
    /\ UNCHANGED <<elapsed, foreign, last_dispatch, commit_log, add_failed, paired_log,
                   denied_log, pub_count, published_on, publishes>>

\* The sleep arm of select!: return Err(CoreError::Timeout).
timed_out(c) ==
    /\ cpc' = [cpc EXCEPT ![c] = "done"]
    /\ result' = [result EXCEPT ![c] = Timeout]
    /\ cinbox' = [cinbox EXCEPT ![c] = <<>>]
    /\ commit_request' = [commit_request EXCEPT ![c] = NoRequest]
    /\ published_request' = [published_request EXCEPT ![c] = FALSE]
    /\ UNCHANGED <<dvars, op, calls, identity_file>>
    /\ UNCHANGED <<tvars, foreign, hvars>>

\* With the clock left out: 20 seconds pass without an event of the call's
\* swarm, and the sleep arm runs.
ClientDeadline(c) ==
    /\ cpc[c] = "loop"
    /\ timed_out(c)

\* -------------------------------------------------- other subscribers
\* Another subscriber publishes on the topic, signed with its own peer id or
\* anonymously.
ForeignPublishes ==
    /\ Stimuli < MaxStimuli
    /\ foreign' = foreign + 1
    /\ \E src \in {Foreign, NoSource} : \E i \in 1..Len(ForeignPayloads(src)) :
         LET env == Envelope(src, ForeignPayloads(src)[i], <<Foreign, foreign + 1>>) IN
         /\ dinbox' = ToDaemon(env)
         /\ cinbox' = ToClients(env)
    /\ UNCHANGED <<dpc, is_pairing_mode, trusted_peers, trusted_peers_file, pairing,
                   attempt, head>>
    /\ UNCHANGED <<cpc, op, calls, commit_request, published_request, result, identity_file>>
    /\ UNCHANGED <<tvars, hvars>>

\* ------------------------------------------------------------ the clock
Min(a, b) == IF a < b THEN a ELSE b
InLoop == {c \in Clients : cpc[c] = "loop"}

\* TickSecs seconds pass. A sleep that has run its 20 seconds is ready, and
\* select! takes a ready arm before more time passes.
Tick ==
    /\ InLoop # {}
    /\ \A c \in InLoop : sleep_timer[c] < TimeoutSecs /\ elapsed[c] < MaxElapsed
    /\ sleep_timer' = [c \in Clients |->
          IF c \in InLoop THEN Min(sleep_timer[c] + TickSecs, TimeoutSecs)
          ELSE sleep_timer[c]]
    /\ elapsed' = [c \in Clients |->
          IF c \in InLoop THEN Min(elapsed[c] + TickSecs, MaxElapsed) ELSE elapsed[c]]
    /\ UNCHANGED <<dvars, cvars, foreign, hvars>>

\* The sleep arm, with the clock: the sleep of this iteration has run out.
ClientSleepFires(c) ==
    /\ cpc[c] = "loop"
    /\ sleep_timer[c] >= TimeoutSecs
    /\ timed_out(c)

\* ------------------------------------------------- the specifications
Next ==
    \/ DaemonDispatch
    \/ OperatorAnswers
    \/ PairSuccessAttempt
    \/ DaemonRestart
    \/ ForeignPublishes
    \/ \E c \in Clients : ClientStart(c)
    \/ \E c \in Clients : ClientSubscribed(c)
    \/ \E c \in Clients : ClientOtherEvent(c)
    \/ \E c \in Clients : ClientMessage(c)
    \/ \E c \in Clients : ClientDeadline(c)

Spec == Init /\ [][Next]_vars

\* The same system against the clock: time passes in steps, and the sleep
\* arm of a call runs when the sleep of its current iteration has run out.
NextTimed ==
    \/ Tick
    \/ DaemonDispatch
    \/ OperatorAnswers
    \/ PairSuccessAttempt
    \/ DaemonRestart
    \/ ForeignPublishes
    \/ \E c \in Clients : ClientStart(c)
    \/ \E c \in Clients : ClientSubscribed(c)
    \/ \E c \in Clients : ClientOtherEvent(c)
    \/ \E c \in Clients : ClientMessage(c)
    \/ \E c \in Clients : ClientSleepFires(c)

SpecTimed == Init /\ [][NextTimed]_vars

\* ------------------------------------------------------------- claims

\* C1: the daemon runs handle_commit_request (the commit and the publish of
\* its Response) only for a Request whose source is in the TrustStore at the
\* moment the message is dispatched; every commit in the repository was made
\* by such a run.
SuccessfulRuns == {i \in 1..Len(commit_log) : commit_log[i].outcome.ok}
C1_TrustGating ==
    /\ \A i \in 1..Len(commit_log) : commit_log[i].trusted
    /\ head = Cardinality(SuccessfulRuns)
\* A Request of an untrusted peer has been dispatched, and nothing was
\* committed or published for it.
C1_Witness ==
    /\ last_dispatch = "untrusted"
    /\ commit_log = <<>>
    /\ head = 0

\* C2: between two states of a daemon without --pair the trusted set and the
\* document at trusted_peers.json do not change, whatever is delivered.
C2_StandardModeNeverInserts ==
    [][(~is_pairing_mode /\ ~is_pairing_mode')
          => UNCHANGED <<trusted_peers, trusted_peers_file>>]_vars
\* A PairRequest has been dispatched by a daemon in standard mode.
C2_Witness ==
    /\ ~is_pairing_mode
    /\ last_dispatch = "pair_ignored"
    /\ trusted_peers = {}
    /\ trusted_peers_file = AbsentFile

\* C3: a call is never in (or back from) its event loop later than 20 seconds
\* after it entered it.
C3_ReturnsWithinDeadline == \A c \in Clients : elapsed[c] <= TimeoutSecs

\* C4: within one call the outbound envelope is published successfully at
\* most once.
C4_SinglePublish == \A c \in Clients : pub_count[c] <= 1
\* A call that has published its envelope is still in its loop, where
\* further Subscribed events reach it.
C4_Witness ==
    \E c \in Clients : cpc[c] = "loop" /\ published_request[c] /\ pub_count[c] = 1

\* C5: a message without source has no effect: at the daemon no pairing
\* dialog, no TrustStore entry, no commit and no publish is made for it; no
\* client call resolves on it.
C5_AnonymousNoEffect ==
    /\ NoSource \notin trusted_peers \cup paired_log
    /\ dpc \in {"prompt", "publish"} => pairing.peer_id # NoSource
    /\ \A i \in 1..Len(commit_log) : commit_log[i].source # NoSource
    /\ \A c \in Clients : resolved_by[c] = NoEnvelope \/ resolved_by[c].source # NoSource

\* C6: a commit call that returned Ok(v), and whose own Request made
\* perform_commit return a hash in the daemon, returned that hash. Stated for
\* the calls that resolved on a message the daemon itself published.
C6_RoundTrip ==
    \A c \in Clients : \A i \in 1..Len(commit_log) :
        ( /\ op[c] = "commit"
          /\ cpc[c] = "done"
          /\ result[c].kind = "Ok"
          /\ resolved_by[c].source = DaemonPeer
          /\ commit_log[i].ref = <<c, calls[c]>>
          /\ commit_log[i].outcome.ok )
        => result[c].value = oid_to_string(commit_log[i].outcome.oid)

\* C7: when a pair call has returned Ok(()), the caller's peer id is in the
\* daemon's TrustStore and in trusted_peers.json. Stated for the calls that
\* resolved on a PairSuccess the daemon itself published, while that daemon
\* process is running.
C7_PairOkMeansTrusted ==
    \A c \in Clients :
        ( /\ op[c] = "pair"
          /\ cpc[c] = "done"
          /\ result[c].kind = "Ok"
          /\ resolved_by[c].source = DaemonPeer )
        => /\ c \in trusted_peers
           /\ trusted_peers_file.state = "valid"
           /\ c \in trusted_peers_file.peers

\* C8: once PairSuccess has been published for a peer, every daemon process
\* in that working directory has the peer in its TrustStore (a later process
\* loads it from the file); and a missing file is no startup error.
C8_PersistenceRoundTrip ==
    /\ paired_log # {} => (dpc # "stopped" /\ paired_log \subseteq trusted_peers)
    /\ trusted_peers_file.state = "absent" => dpc # "stopped"

\* C9: every peer the daemon reports as trusted is in the document on disk.
C9_WriteThenExpose ==
    dpc # "stopped" =>
        \A p \in Peers :
            is_trusted(p) => (trusted_peers_file.state = "valid"
                              /\ p \in trusted_peers_file.peers)

\* C10: when add_trusted_peer has returned Ok (handle_pair_request goes on to
\* publish PairSuccess), the peers in trusted_peers.json are exactly the
\* in-memory trusted set.
C10_FileEqualsMemoryAfterAdd ==
    dpc = "publish" =>
        /\ trusted_peers_file.state = "valid"
        /\ trusted_peers_file.peers = trusted_peers
\* An add has returned Ok after an earlier add had failed.
C10_Witness ==
    /\ dpc = "publish"
    /\ attempt = 0
    /\ add_failed # {}
    /\ pairing.peer_id \notin add_failed
    /\ trusted_peers_file.peers = trusted_peers

ExactlyOneSide(response) ==
    \/ response.success /\ response.commit_hash # None /\ response.error_message = None
    \/ ~response.success /\ response.commit_hash = None /\ response.error_message # None
C12_ResponseShape ==
    /\ \A i \in 1..Len(commit_log) : ExactlyOneSide(commit_log[i].response)
    /\ \A c \in Clients : \A j \in 1..Len(cinbox[c]) :
          LET decoded == from_slice(cinbox[c][j].data) IN
          (cinbox[c][j].source = DaemonPeer /\ decoded.msg.tag = "Response")
              => ExactlyOneSide(decoded.msg.body)
\* Both kinds have been published: a success and a failure.
C12_Witness ==
    \E i, j \in 1..Len(commit_log) :
        /\ commit_log[i].sent /\ commit_log[i].response.success
        /\ commit_log[j].sent /\ ~commit_log[j].response.success

\* C13: when perform_commit fails for a trusted Request, the Response the
\* daemon builds is {success: false, commit_hash: None, error_message: the
\* executor's error text}; and a commit call that resolves on a failure
\* Response of the daemon returns Err(NetworkError{message}) with that
\* error_message, not Ok and not Timeout.
C13_ExecutorFailureSurfaces ==
    /\ \A i \in 1..Len(commit_log) :
          ~commit_log[i].outcome.ok =>
              commit_log[i].response =
                  CommitResponse(FALSE, None, Some(commit_log[i].outcome.error))
    /\ \A c \in Clients :
          LET decoded == from_slice(resolved_by[c].data) IN
          ( /\ cpc[c] = "done"
            /\ op[c] = "commit"
            /\ resolved_by[c].source = DaemonPeer
            /\ decoded.msg.tag = "Response"
            /\ ~decoded.msg.body.success )
          => result[c] = NetworkError(decoded.msg.body.error_message[1])
\* A call has returned the executor's error for its own Request.
C13_Witness ==
    \E c \in Clients : \E i \in 1..Len(commit_log) :
        /\ cpc[c] = "done"
        /\ op[c] = "commit"
        /\ commit_log[i].ref = <<c, calls[c]>>
        /\ ~commit_log[i].outcome.ok
        /\ resolved_by[c].ref = <<c, calls[c]>>
        /\ resolved_by[c].source = DaemonPeer
        /\ result[c] = NetworkError(commit_log[i].outcome.error)

\* C14: no data-plane error stops the daemon. A daemon process that has
\* dispatched a message is running, whatever the dispatch met (a failed
\* perform_commit, a failed publish of the Response, a failed write of the
\* trust file, five failed publishes of PairSuccess): it is in its loop, or
\* inside handle_pair_request on the way back to it. Right after
\* handle_commit_request, and after the fifth failed PairSuccess attempt, it
\* is in the loop. The only stopped daemon is one whose start could not read
\* the trust file.
C14_DaemonSurvivesErrors ==
    /\ last_dispatch # NoDispatch => dpc \in {"loop", "prompt", "publish"}
    /\ last_dispatch = "commit" => dpc = "loop"
    /\ Len(publishes) = max_retries => dpc = "loop"
    /\ dpc = "stopped" => ~PeerManager_new(trusted_peers_file).ok
\* After a Request whose perform_commit failed, or whose Response could not be
\* published, a later Request has been committed and answered.
C14_Witness ==
    /\ dpc = "loop"
    /\ Len(commit_log) = 2
    /\ ~commit_log[1].outcome.ok \/ ~commit_log[1].sent
    /\ commit_log[2].outcome.ok
    /\ commit_log[2].sent

\* C15: a call made with a dial string that is no multi-address returns
\* Err(NetworkError) before any I/O. For the first call in a working
\* directory, which starts without client_identity.key: when it has returned
\* the address error, the key file has not been created and nothing has been
\* published.
C15_InvalidDialBeforeIO ==
    \A c \in Clients :
        ( /\ calls[c] = 1
          /\ cpc[c] = "done"
          /\ result[c] = NetworkError("Invalid daemon address") )
        => /\ identity_file[c] = "absent"
           /\ pub_count[c] = 0

\* C16: once client_identity.key exists no client call changes it: a call
\* reads the file and uses the identity in it, and a call that cannot decode
\* the file returns an error, generates nothing and leaves the file as it is.
C16_IdentityFileStable ==
    [][ \A c \in Clients :
          identity_file[c] # "absent" =>
              /\ identity_file'[c] = identity_file[c]
              /\ (identity_file[c] = "corrupt" /\ calls'[c] # calls[c]) =>
                     /\ cpc'[c] = "done"
                     /\ result'[c] = NetworkError("Failed to decode key file")
      ]_vars
\* A second call in a directory whose key file does not decode.
C16_Witness ==
    \E c \in Clients :
        /\ calls[c] = 2
        /\ cpc[c] = "done"
        /\ identity_file[c] = "corrupt"
        /\ result[c] = NetworkError("Failed to decode key file")

\* C17: while handle_pair_request waits for the operator, the event loop is
\* not blocked: a Request of a trusted peer that the swarm holds can be
\* dispatched (committed and answered) before the operator answers.
C17_PromptDoesNotBlockLoop ==
    ( /\ dpc = "prompt"
      /\ dinbox # <<>>
      /\ dispatch_arm(Head(dinbox)) = "commit" )
    => ENABLED DaemonDispatch

\* C18: a Response on which a commit call resolves is the daemon's response
\* to the Request that call published. Stated for the calls that resolved on
\* a Response the daemon itself published: its ref names the call.
C18_ResponseCorrelation ==
    \A c \in Clients :
        ( /\ op[c] = "commit"
          /\ cpc[c] = "done"
          /\ resolved_by[c].source = DaemonPeer )
        => resolved_by[c].ref = <<c, calls[c]>>

\* C19: for one approved pairing the daemon makes at most max_retries = 5
\* publish attempts of PairSuccess; an attempt that succeeds is the last one;
\* the 500 ms sleeps, which `attempt` counts, are exactly the failed attempts
\* before the fifth, so at most 4; and while the handler is still publishing,
\* fewer than 5 attempts have been made and all of them have failed.
SleptAfter == {i \in 1..Len(publishes) : ~publishes[i] /\ i < max_retries}
C19_BoundedRetry ==
    /\ Len(publishes) <= max_retries
    /\ \A i \in 1..Len(publishes) : publishes[i] => i = Len(publishes)
    /\ attempt <= max_retries - 1
    /\ dpc # "prompt" => attempt = Cardinality(SleptAfter)
    /\ dpc = "publish" =>
          /\ Len(publishes) < max_retries
          /\ \A i \in 1..Len(publishes) : ~publishes[i]
\* The handler has given up after five failed attempts and four sleeps.
C19_Witness ==
    /\ dpc = "loop"
    /\ Len(publishes) = max_retries
    /\ \A i \in 1..Len(publishes) : ~publishes[i]
    /\ attempt = max_retries - 1

\* C20: the daemon publishes PairSuccess only after the operator approved and
\* add_trusted_peer returned Ok for the requesting peer: whenever the handler
\* is about to attempt the publish, or has attempted it, that peer is in the
\* TrustStore and in the document written to trusted_peers.json; a peer whose
\* add failed and who was never added with success has no PairSuccess.
C20_PairSuccessOnlyAfterAdd ==
    /\ (dpc = "publish" \/ publishes # <<>>) =>
          /\ pairing.peer_id \in Peers
          /\ pairing.peer_id \in trusted_peers
          /\ trusted_peers_file.state = "valid"
          /\ pairing.peer_id \in trusted_peers_file.peers
    /\ \A p \in paired_log :
          trusted_peers_file.state = "valid" => p \in trusted_peers_file.peers
\* The add of one peer failed and no PairSuccess went out for it; the add of
\* another peer returned Ok and its PairSuccess was published.
C20_Witness ==
    /\ dpc = "loop"
    /\ publishes = <<TRUE>>
    /\ pairing.peer_id \in paired_log
    /\ add_failed # {}
    /\ add_failed \cap paired_log = {}

\* The daemon's half of C21: a dialog the operator does not approve (any
\* line but y or Y, or a failed read) changes neither the TrustStore nor
\* trusted_peers.json and publishes nothing.
DenialChangesNothing ==
    [][ (denied_log' \ denied_log) # {} =>
          UNCHANGED <<trusted_peers, trusted_peers_file, cinbox, paired_log, publishes,
                      head>>
      ]_vars

\* C21: a pairing the operator did not approve changes nothing, so the pair
\* call whose PairRequest was denied can only end with Err(Timeout). Stated
\* for the calls that returned on the sleep arm or on a message the daemon
\* itself published.
C21_DeniedPairTimesOut ==
    \A c \in Clients :
        ( /\ op[c] = "pair"
          /\ cpc[c] = "done"
          /\ <<c, calls[c]>> \in denied_log
          /\ resolved_by[c] = NoEnvelope \/ resolved_by[c].source = DaemonPeer )
        => result[c] = Timeout

\* C22: for each trusted Request it dispatches the daemon makes one publish
\* attempt of the Response and does not retry it: the Response of a run whose
\* publish failed never reaches a client; and the commit that run made stays
\* in the repository.
DaemonResponsesAt(c) ==
    {cinbox[c][j] : j \in 1..Len(cinbox[c])} \cup {resolved_by[c]}
C22_SingleResponseAttempt ==
    \A i \in 1..Len(commit_log) :
        /\ ~commit_log[i].sent =>
              \A c \in Clients : \A env \in DaemonResponsesAt(c) :
                  ~(env.source = DaemonPeer /\ env.ref = commit_log[i].ref)
        /\ commit_log[i].outcome.ok => commit_log[i].outcome.oid <= head
\* The commit was made, the publish of its Response failed, and the call
\* ran into its timeout.
C22_Witness ==
    \E c \in Clients : \E i \in 1..Len(commit_log) :
        /\ commit_log[i].ref = <<c, calls[c]>>
        /\ commit_log[i].outcome.ok
        /\ ~commit_log[i].sent
        /\ head = commit_log[i].outcome.oid
        /\ cpc[c] = "done"
        /\ result[c] = Timeout

\* C23: a delivered message that decodes to Response or PairSuccess, or that
\* decodes to no NetworkMessage, is dropped by the daemon: the step of the
\* loop that takes it off the swarm changes neither the TrustStore, the trust
\* file nor the repository, starts no prompt and publishes nothing. (A step
\* that takes the head of dinbox and records an arm is a dispatch; a restart
\* records none.)
IsEchoOrMalformed(message) ==
    LET decoded == from_slice(message.data) IN
    ~decoded.ok \/ decoded.msg.tag \in {"Response", "PairSuccess"}
C23_RepliesDropped ==
    [][ ( /\ dpc = "loop"
          /\ dinbox # <<>>
          /\ dinbox' = Tail(dinbox)
          /\ last_dispatch' # NoDispatch
          /\ IsEchoOrMalformed(Head(dinbox)) )
        => UNCHANGED <<dpc, trusted_peers, trusted_peers_file, head, pairing, cinbox,
                       commit_log, paired_log, publishes, attempt>>
      ]_vars
\* The daemon has just dropped a PairSuccess or a Response that another
\* subscriber signed.
C23_Witness ==
    /\ last_dispatch = "dropped"
    /\ dpc = "loop"
    /\ foreign >= 1
    /\ head = 0
    /\ publishes = <<>>
    /\ pairing.peer_id = NoSource

\* The publish trigger of C24: every publish of a call was made in the Subscribed arm, and an
\* envelope of the call that waits at the daemon was published there.
PublishOnlyOnSubscribed ==
    \A c \in Clients :
        /\ published_on[c] \in {"none", "Subscribed"}
        /\ pub_count[c] > 0 <=> published_on[c] = "Subscribed"
        /\ \A j \in 1..Len(dinbox) :
              dinbox[j].ref = <<c, calls[c]>> => published_on[c] = "Subscribed"
\* The envelope a call published in its Subscribed arm waits at the daemon.
PublishOnlyOnSubscribed_Reached ==
    \E c \in Clients :
        /\ cpc[c] = "loop"
        /\ published_on[c] = "Subscribed"
        /\ pub_count[c] = 1
        /\ dinbox # <<>>
        /\ Head(dinbox).ref = <<c, calls[c]>>

\* C24: the client publishes its envelope only while it handles a Subscribed
\* event, and a call that entered its loop and handled no Subscribed event
\* has published nothing and ends with Err(Timeout).
C24_NoSubscribedTimesOut ==
    /\ PublishOnlyOnSubscribed
    /\ \A c \in Clients :
          ( /\ cpc[c] = "done"
            /\ result[c].kind # "NetworkError"
            /\ published_on[c] = "none" )
          => pub_count[c] = 0 /\ result[c] = Timeout

InHandler == dpc \in {"prompt", "publish"}
IsPrefix(s, t) == Len(s) <= Len(t) /\ SubSeq(t, 1, Len(s)) = s

\* C25: the TrustStore is never accessed concurrently. While
\* handle_pair_request is in progress (the dialog, add_trusted_peer, the
\* PairSuccess attempts) no message is dispatched: nothing is taken from the
\* swarm, no is_trusted check and no commit runs, and the dialog is not
\* replaced by another; messages are taken one at a time from the head, and
\* the TrustStore changes only in the handler that holds the dialog (or when
\* the process starts).
C25_TrustStoreSerialised ==
    [][ /\ InHandler =>
             /\ commit_log' = commit_log
             /\ \/ IsPrefix(dinbox, dinbox')
                \/ dinbox' = <<>> /\ ~InHandler'
             /\ InHandler' => pairing' = pairing
        /\ Len(dinbox') < Len(dinbox) => dinbox' = Tail(dinbox) \/ dinbox' = <<>>
        /\ dpc = "loop" /\ dpc' = "prompt" =>
             dinbox # <<>> /\ dinbox' = Tail(dinbox) /\ pairing'.peer_id = Head(dinbox).source
        /\ trusted_peers' # trusted_peers =>
             \/ dpc = "prompt" /\ trusted_peers' = trusted_peers \cup {pairing.peer_id}
             \/ dinbox' = <<>> /\ ~InHandler'
      ]_vars
\* A second client's PairRequest is held by the swarm while the dialog for
\* the first is outstanding.
C25_Witness ==
    /\ dpc = "prompt"
    /\ dinbox # <<>>
    /\ dispatch_arm(Head(dinbox)) = "prompt"
    /\ Head(dinbox).source \in Clients
    /\ Head(dinbox).source # pairing.peer_id

CommitsFor(c, n) == {i \in 1..Len(commit_log) : commit_log[i].ref = <<c, n>>}

\* C26: one commit call causes at most one perform_commit in the daemon: no
\* two entries of the daemon's commit log belong to the same call of a
\* client, however many Subscribed events the call handled and however many
\* of its publish attempts failed.
C26_AtMostOneCommitPerCall ==
    \A c \in Clients : \A n \in 1..calls[c] : Cardinality(CommitsFor(c, n)) <= 1
\* A commit call whose Request the daemon committed exactly once is still in
\* its loop, where further Subscribed events reach it.
C26_Witness ==
    \E c \in Clients :
        /\ op[c] = "commit"
        /\ cpc[c] = "loop"
        /\ published_request[c]
        /\ Cardinality(CommitsFor(c, calls[c])) = 1

====
